---- MODULE Spec2Model ----
(***************************************************************************)
(* Job orchestration of the car video generator: the in-memory job table   *)
(* and rate-limit table of backend/app.py, the HTTP handlers that mutate   *)
(* them, and the background worker (process_video_generation) driving the  *)
(* pipeline of gg.py (process_car_images).                                 *)
(*                                                                         *)
(* The server runs on one asyncio event loop: a handler or worker runs     *)
(* without interruption from one await to the next, so every action below  *)
(* is one such uninterrupted run.  External calls (image generation, video *)
(* generation, ffmpeg) are awaited; their outcomes are inputs of the       *)
(* action that resumes after the await.                                    *)
(*                                                                         *)
(* Left out of Next: the handlers that only read the tables (status and    *)
(* the two downloads) and the job record's input_files entry, which no     *)
(* code reads after it is written.  Inside the pipeline, the nine upscale  *)
(* calls and the three segment batches are one step each: they touch       *)
(* neither table, and the worker looks at the job table again only after   *)
(* process_car_images has returned.                                        *)
(***************************************************************************)
EXTENDS Integers, Sequences, FiniteSets, TLC

\* ------------------------------------------------------------- bounds
\* Number of jobs alive at once (a job is alive while it has a record in the
\* job table or a background task that has not ended).
MaxJobs == 1
\* max_wait_time of _poll_status (gg.py:463), counted in ticks of the clock
\* that _poll_status reads: the code compares elapsed time with it and does
\* nothing else with either.
MaxWaitTicks == 3
\* ---------------------------------------------------- program constants
MAX_GENERATIONS_PER_DAY == 15
\* generate_videos_from_frames: range(0, 8, BATCH_SIZE) -- 8 segments.
NUM_SEGMENTS == 8
\* crop_contact_sheet: a 3 x 3 grid.
NUM_FRAMES == 9

JobIds == 1..MaxJobs
Ips == {"ip1"}

\* Numbers of successful segments the video stage may report.
SegmentOutcomes == {0, 1, NUM_SEGMENTS}

VARIABLES
    job_status,        \* app.py:46   dict job_id -> job record
    rate_limit_store,  \* app.py:50   dict ip -> {date, count}; a date is kept
                       \* relative to the clock: TODAY or an EARLIER day
    worker,            \* per job: position and locals of its background task
    response,          \* the HTTP response of the step just taken
    retrier,           \* gg.py:514  one call of generate_higgsfield: its
                       \* position, its locals and the log of what it met
    sched,             \* gg.py:854  one call of generate_videos_from_frames:
                       \* its position, its locals and its segment tasks
    upscaler           \* gg.py:987  one call of upscale_frames: its position,
                       \* its locals and how each enhancement ended

vars == <<job_status, rate_limit_store, worker, response>>

\* gg.py:378
MAX_RETRIES == 3

\* gg.py:885
BATCH_SIZE == 3

\* _poll_status: poll_interval = 2.0 (gg.py:473) and
\* poll_interval = min(poll_interval * 1.2, 10) (gg.py:498).
POLL_INTERVAL_START == 2
POLL_INTERVAL_CAP == 10
FACTOR_NUM == 6
FACTOR_DEN == 5

\* Intervals are kept as multiples of 1 / IntervalScale seconds, which makes
\* every product by 1.2 below the cap an integer: the cap is passed at the
\* ninth product (2 * 1.2^9 > 10).
IntervalScale == FACTOR_DEN ^ 9

\* No call of generate_higgsfield is under observation.
NotCalled == [pc |-> "idle"]

\* No call of generate_videos_from_frames is under observation.
NotScheduled == [pc |-> "idle"]

\* No call of upscale_frames is under observation.
NotUpscaling == [pc |-> "idle"]

\* ----------------------------------------------------------- job records
\* A dict key that is absent is the empty sequence; a present one is <<value>>.
Unset == << >>

QUEUED == "queued"
PROCESSING == "processing"
COMPLETED == "completed"
FAILED == "failed"
CANCELLED == "cancelled"

Terminal == {COMPLETED, FAILED, CANCELLED}

Exists(j) == j \in DOMAIN job_status

\* d[k] = v on a dict: the key is added or overwritten.
DictSet(d, k, v) == [x \in (DOMAIN d) \cup {k} |-> IF x = k THEN v ELSE d[x]]

\* del d[k]
DictDel(d, k) == [x \in (DOMAIN d) \ {k} |-> d[x]]

\* ------------------------------------------------------------ responses
\* op: the handler that answered; code: the HTTP status; the other fields are
\* the numbers the body carries (0 / FALSE where the body carries none).
NoResponse ==
    [op |-> "none", code |-> 0, remaining |-> 0, used |-> 0, is_allowed |-> FALSE]

Resp(op, code) ==
    [op |-> op, code |-> code, remaining |-> 0, used |-> 0, is_allowed |-> FALSE]

\* ------------------------------------------------------------- workers
NoWorker == [pc |-> "none", nsucc |-> 0]

PipelinePcs == {"sheet", "upscale", "videos", "stitch"}

\* --------------------------------------------------------- rate limiter
\* datetime.now().strftime("%Y-%m-%d") is only ever compared for equality with
\* a stored date, so a stored date is TODAY (equal to what the clock reads now)
\* or EARLIER (any day before).
TODAY == "today"
EARLIER == "earlier"

\* The clock passes midnight: every stored date is an earlier day now.
Midnight(store) == [ip \in DOMAIN store |-> [store[ip] EXCEPT !.date = EARLIER]]

\* check_rate_limit: the store after the call.
CheckStore(store, ip) ==
    IF ip \notin DOMAIN store
        THEN DictSet(store, ip, [date |-> TODAY, count |-> 0])
        ELSE IF store[ip].date # TODAY
            THEN DictSet(store, ip, [date |-> TODAY, count |-> 0])
            ELSE store

Max(a, b) == IF a >= b THEN a ELSE b

\* Mutant of CheckResult: the admission test written <= instead of <.
CheckResult_OffByOne(store, ip) ==
    LET user_data == CheckStore(store, ip)[ip]
    IN  [is_allowed |-> user_data.count <= MAX_GENERATIONS_PER_DAY,
         remaining  |-> Max(0, MAX_GENERATIONS_PER_DAY - user_data.count)]

\* Mutant of CheckResult: app.py:82 left out, so the values are computed from
\* the record as it was before a stale date reset it.
CheckResult_BeforeReset(store, ip) ==
    LET user_data == IF ip \in DOMAIN store
                         THEN store[ip] ELSE [date |-> TODAY, count |-> 0]
    IN  [is_allowed |-> user_data.count < MAX_GENERATIONS_PER_DAY,
         remaining  |-> Max(0, MAX_GENERATIONS_PER_DAY - user_data.count)]

\* check_rate_limit: the returned pair (is_allowed, remaining).
CheckResult(store, ip) ==
    LET user_data == CheckStore(store, ip)[ip]
    IN  [is_allowed |-> user_data.count < MAX_GENERATIONS_PER_DAY,
         remaining  |-> Max(0, MAX_GENERATIONS_PER_DAY - user_data.count)]

\* Mutant of IncrementStore: the count is written from a value read earlier
\* (the count the record had when the day began) instead of read-modify-write.
IncrementStore_LostUpdate(store, ip) ==
    LET s == IF ip \in DOMAIN store
                 THEN store ELSE DictSet(store, ip, [date |-> TODAY, count |-> 0])
    IN  DictSet(s, ip, [date |-> s[ip].date, count |-> 1])

\* increment_rate_limit: the store after the call.
IncrementStore(store, ip) ==
    LET s == IF ip \notin DOMAIN store
                 THEN DictSet(store, ip, [date |-> TODAY, count |-> 0])
                 ELSE store
    IN  DictSet(s, ip, [date |-> s[ip].date, count |-> s[ip].count + 1])

\* The store as a later clock reading of the same handler finds it;
\* rolled: midnight has passed since the previous reading.
LaterRead(store, rolled) == IF rolled THEN Midnight(store) ELSE store

\* ---------------------------------------------------------------- Init
Init ==
    /\ job_status = << >>
    /\ rate_limit_store = << >>
    /\ worker = [j \in JobIds |-> NoWorker]
    /\ response = NoResponse
    /\ retrier = NotCalled
    /\ sched = NotScheduled
    /\ upscaler = NotUpscaling

\* The clock passes midnight.
Tick ==
    /\ rate_limit_store' = Midnight(rate_limit_store)
    /\ response' = NoResponse
    /\ UNCHANGED <<job_status, worker>>

\* The identifiers uuid.uuid4() may return: those no record and no running
\* background task carries (an identifier whose job is gone altogether stands
\* for a new one).
FreeIds ==
    {j \in JobIds : ~Exists(j) /\ worker[j].pc \in {"none", "done", "crashed"}}

FreshId == CHOOSE j \in FreeIds : \A k \in FreeIds : j <= k

\* ------------------------------------------------------------ handlers
\* GET /api/rate-limit
get_rate_limit(ip) ==
    LET store1 == CheckStore(rate_limit_store, ip)
        res    == CheckResult(rate_limit_store, ip)
    IN  /\ rate_limit_store' = store1
        /\ response' = [op |-> "rate_limit", code |-> 200,
                        remaining |-> res.remaining,
                        used |-> store1[ip].count,
                        is_allowed |-> res.is_allowed]
        /\ UNCHANGED <<job_status, worker>>

\* POST /api/upload, rejected because the request carries no files.
UploadNoFiles ==
    /\ response' = Resp("upload", 400)
    /\ UNCHANGED <<job_status, rate_limit_store, worker>>

\* Mutant of UploadFiles: the counter is incremented before the quota test,
\* so a refused upload is counted too.
UploadFiles_CountsRefused(ip, saveOk, rolled2, rolled3) ==
    LET store1 == CheckStore(rate_limit_store, ip)
        res    == CheckResult(rate_limit_store, ip)
    IN  IF ~res.is_allowed
        THEN /\ rate_limit_store' = IncrementStore(store1, ip)
             /\ response' = Resp("upload", 429)
             /\ UNCHANGED <<job_status, worker>>
        ELSE IF ~saveOk
        THEN /\ rate_limit_store' = store1
             /\ response' = Resp("upload", 500)
             /\ UNCHANGED <<job_status, worker>>
        ELSE LET job_id == FreshId
                 store2 == IncrementStore(LaterRead(store1, rolled2), ip)
                 store3 == CheckStore(LaterRead(store2, rolled3), ip)
             IN  /\ FreeIds # {}
                 /\ job_status' = DictSet(job_status, job_id,
                        [status |-> QUEUED,
                         progress |-> "Starting video generation...",
                         result |-> Unset,
                         error |-> Unset])
                 /\ worker' = [worker EXCEPT ![job_id] =
                        [pc |-> "scheduled", nsucc |-> 0]]
                 /\ rate_limit_store' = store3
                 /\ response' = [op |-> "upload", code |-> 200,
                                 remaining |->
                                   CheckResult(LaterRead(store2, rolled3), ip).remaining,
                                 used |-> 0, is_allowed |-> FALSE]

\* POST /api/upload with files.  saveOk: writing the files to disk succeeds.
\* check_rate_limit, increment_rate_limit and the second check_rate_limit read
\* the clock one after the other: midnight may pass between two readings
\* (rolled2: before the increment, rolled3: before the second check).
UploadFiles(ip, saveOk, rolled2, rolled3) ==
    LET store1 == CheckStore(rate_limit_store, ip)
        res    == CheckResult(rate_limit_store, ip)
    IN  IF ~res.is_allowed
        THEN /\ rate_limit_store' = store1
             /\ response' = Resp("upload", 429)
             /\ UNCHANGED <<job_status, worker>>
        ELSE IF ~saveOk
        THEN /\ rate_limit_store' = store1
             /\ response' = Resp("upload", 500)
             /\ UNCHANGED <<job_status, worker>>
        ELSE LET job_id == FreshId
                 store2 == IncrementStore(LaterRead(store1, rolled2), ip)
                 store3 == CheckStore(LaterRead(store2, rolled3), ip)
             IN  /\ FreeIds # {}
                 /\ job_status' = DictSet(job_status, job_id,
                        [status |-> QUEUED,
                         progress |-> "Starting video generation...",
                         result |-> Unset,
                         error |-> Unset])
                 /\ worker' = [worker EXCEPT ![job_id] =
                        [pc |-> "scheduled", nsucc |-> 0]]
                 /\ rate_limit_store' = store3
                 /\ response' = [op |-> "upload", code |-> 200,
                                 remaining |->
                                   CheckResult(LaterRead(store2, rolled3), ip).remaining,
                                 used |-> 0, is_allowed |-> FALSE]

upload_images(ip, hasFiles, saveOk, rolled2, rolled3) ==
    IF ~hasFiles THEN UploadNoFiles ELSE UploadFiles(ip, saveOk, rolled2, rolled3)

\* Mutant of cancel_job: the status guard (app.py:327-331) left out.
cancel_job_NoStatusGuard(j) ==
    IF ~Exists(j)
    THEN /\ response' = Resp("cancel", 404)
         /\ UNCHANGED <<job_status, rate_limit_store, worker>>
    ELSE /\ job_status' = [job_status EXCEPT
                ![j].status = CANCELLED,
                ![j].progress = "Job cancelled by user"]
         /\ response' = Resp("cancel", 200)
         /\ UNCHANGED <<rate_limit_store, worker>>

\* POST /api/cancel/{job_id}
cancel_job(j) ==
    IF ~Exists(j)
    THEN /\ response' = Resp("cancel", 404)
         /\ UNCHANGED <<job_status, rate_limit_store, worker>>
    ELSE IF job_status[j].status \notin {QUEUED, PROCESSING}
    THEN /\ response' = Resp("cancel", 400)
         /\ UNCHANGED <<job_status, rate_limit_store, worker>>
    ELSE /\ job_status' = [job_status EXCEPT
                ![j].status = CANCELLED,
                ![j].progress = "Job cancelled by user"]
         /\ response' = Resp("cancel", 200)
         /\ UNCHANGED <<rate_limit_store, worker>>

\* DELETE /api/jobs/{job_id}
delete_job(j) ==
    IF ~Exists(j)
    THEN /\ response' = Resp("delete", 404)
         /\ UNCHANGED <<job_status, rate_limit_store, worker>>
    ELSE /\ job_status' = DictDel(job_status, j)
         /\ response' = Resp("delete", 200)
         /\ UNCHANGED <<rate_limit_store, worker>>

\* The two download handlers write nothing: each is the response it gives in
\* the current state.  fileExists: Path(...).exists() on the stored path.
\* Code 500 is the answer to an exception the handler does not catch.
\* GET /api/download/{job_id}/video
download_video(j, fileExists) ==
    IF ~Exists(j) THEN Resp("download_video", 404)
    ELSE IF job_status[j].status # COMPLETED THEN Resp("download_video", 400)
    ELSE IF job_status[j].result = Unset
        THEN Resp("download_video", 500)      \* KeyError: 'result'
    ELSE IF ~job_status[j].result[1].final_video \/ ~fileExists
        THEN Resp("download_video", 404)
    ELSE Resp("download_video", 200)

\* GET /api/download/{job_id}/contact-sheet
download_contact_sheet(j, fileExists) ==
    IF ~Exists(j) THEN Resp("download_contact_sheet", 404)
    ELSE IF job_status[j].status \notin {PROCESSING, COMPLETED}
        THEN Resp("download_contact_sheet", 400)
    ELSE IF job_status[j].result = Unset
        THEN Resp("download_contact_sheet", 500)   \* KeyError: 'result'
    ELSE IF ~job_status[j].result[1].contact_sheet \/ ~fileExists
        THEN Resp("download_contact_sheet", 404)
    ELSE Resp("download_contact_sheet", 200)

\* ------------------------------------------------- background worker
\* What process_car_images handed back to process_video_generation:
\* kind "ok" (a result dict), "error" (a dict with key "error") or "raised".
Outcome(kind, final, nsucc) == [kind |-> kind, final |-> final, nsucc |-> nsucc]

ResultRecord(out) ==
    [contact_sheet |-> TRUE,
     final_video   |-> out.final,
     summary       |-> [total_frames      |-> NUM_FRAMES,
                        total_videos      |-> NUM_SEGMENTS,
                        successful_videos |-> out.nsucc,
                        failed_videos     |-> NUM_SEGMENTS - out.nsucc]]

\* Mutant of WorkerExcept: the test `status != "cancelled"` left out.
WorkerExcept_NoCancelCheck(j) ==
    IF ~Exists(j)
    THEN /\ worker' = [worker EXCEPT ![j].pc = "crashed"]
         /\ UNCHANGED job_status
    ELSE /\ worker' = [worker EXCEPT ![j].pc = "done"]
         /\ job_status' = [job_status EXCEPT
                ![j].status = FAILED,
                ![j].error = <<"exception">>]

\* Mutant of WorkerExcept: the error is stored before the cancellation test.
WorkerExcept_ErrorOutsideIf(j) ==
    IF ~Exists(j)
    THEN /\ worker' = [worker EXCEPT ![j].pc = "crashed"]
         /\ UNCHANGED job_status
    ELSE /\ worker' = [worker EXCEPT ![j].pc = "done"]
         /\ IF job_status[j].status # CANCELLED
            THEN job_status' = [job_status EXCEPT
                     ![j].status = FAILED,
                     ![j].error = <<"exception">>]
            ELSE job_status' = [job_status EXCEPT ![j].error = <<"exception">>]

\* The except clause of process_video_generation (app.py:248-253).
WorkerExcept(j) ==
    IF ~Exists(j)
    THEN \* job_status[job_id] raises KeyError inside the handler: it escapes.
         /\ worker' = [worker EXCEPT ![j].pc = "crashed"]
         /\ UNCHANGED job_status
    ELSE /\ worker' = [worker EXCEPT ![j].pc = "done"]
         /\ IF job_status[j].status # CANCELLED
            THEN job_status' = [job_status EXCEPT
                     ![j].status = FAILED,
                     ![j].error = <<"exception">>]
            ELSE UNCHANGED job_status

\* Mutant of WorkerFinish: the test "cancelled during processing"
\* (app.py:229-232) left out.
WorkerFinish_NoCancelCheck(j, out) ==
    IF out.kind = "raised" \/ ~Exists(j)
    THEN WorkerExcept(j)
    ELSE /\ worker' = [worker EXCEPT ![j].pc = "done"]
         /\ IF out.kind = "error"
            THEN job_status' = [job_status EXCEPT
                     ![j].status = FAILED,
                     ![j].error = <<"contact_sheet_error">>]
            ELSE job_status' = [job_status EXCEPT
                     ![j].status = COMPLETED,
                     ![j].result = <<ResultRecord(out)>>,
                     ![j].progress = "Video generation complete!"]

\* Mutant of WorkerFinish: the `else:` of app.py:238 left out, so the error
\* branch falls through into the completion.
WorkerFinish_FallThrough(j, out) ==
    IF out.kind = "raised" \/ ~Exists(j)
    THEN WorkerExcept(j)
    ELSE /\ worker' = [worker EXCEPT ![j].pc = "done"]
         /\ IF job_status[j].status = CANCELLED
            THEN UNCHANGED job_status
            ELSE job_status' = [job_status EXCEPT
                     ![j].status = COMPLETED,
                     ![j].error = IF out.kind = "error"
                                     THEN <<"contact_sheet_error">> ELSE @,
                     ![j].result = <<ResultRecord(out)>>,
                     ![j].progress = "Video generation complete!"]

\* Mutant of WorkerFinish: the result is stored before the cancellation test.
WorkerFinish_ResultBeforeCheck(j, out) ==
    IF out.kind = "raised" \/ ~Exists(j)
    THEN WorkerExcept(j)
    ELSE /\ worker' = [worker EXCEPT ![j].pc = "done"]
         /\ IF job_status[j].status = CANCELLED
            THEN job_status' = [job_status EXCEPT
                     ![j].result = IF out.kind = "ok"
                                      THEN <<ResultRecord(out)>> ELSE @]
            ELSE IF out.kind = "error"
            THEN job_status' = [job_status EXCEPT
                     ![j].status = FAILED,
                     ![j].error = <<"contact_sheet_error">>]
            ELSE job_status' = [job_status EXCEPT
                     ![j].status = COMPLETED,
                     ![j].result = <<ResultRecord(out)>>,
                     ![j].progress = "Video generation complete!"]

\* Mutant of WorkerFinish: the task ends after the pipeline without writing
\* the job's status.
WorkerFinish_LeavesStatus(j, out) ==
    IF out.kind = "raised" \/ ~Exists(j)
    THEN WorkerExcept(j)
    ELSE /\ worker' = [worker EXCEPT ![j].pc = "done"]
         /\ UNCHANGED job_status

\* process_video_generation after the pipeline has handed back `out`
\* (app.py:229-253).
WorkerFinish(j, out) ==
    IF out.kind = "raised" \/ ~Exists(j)
    THEN WorkerExcept(j)
    ELSE /\ worker' = [worker EXCEPT ![j].pc = "done"]
         /\ IF job_status[j].status = CANCELLED
            THEN UNCHANGED job_status
            ELSE IF out.kind = "error"
            THEN job_status' = [job_status EXCEPT
                     ![j].status = FAILED,
                     ![j].error = <<"contact_sheet_error">>]
            ELSE job_status' = [job_status EXCEPT
                     ![j].status = COMPLETED,
                     ![j].result = <<ResultRecord(out)>>,
                     ![j].progress = "Video generation complete!"]

\* Mutant of StartWorker: the test "cancelled before starting"
\* (app.py:215-218) left out.
StartWorker_NoCancelCheck(j, loadOk) ==
    /\ worker[j].pc = "scheduled"
    /\ response' = NoResponse
    /\ UNCHANGED rate_limit_store
    /\ IF ~Exists(j)
       THEN WorkerExcept(j)
       ELSE IF ~loadOk
       THEN /\ worker' = [worker EXCEPT ![j].pc = "done"]
            /\ job_status' = [job_status EXCEPT
                   ![j].status = FAILED,
                   ![j].progress = "Generating contact sheet...",
                   ![j].error = <<"exception">>]
       ELSE /\ worker' = [worker EXCEPT ![j].pc = "sheet"]
            /\ job_status' = [job_status EXCEPT
                   ![j].status = PROCESSING,
                   ![j].progress = "Generating contact sheet..."]

\* The background task starts (app.py:212-227) and runs up to the first await
\* of the pipeline.  loadOk: load_images_from_folder finds images.
StartWorker(j, loadOk) ==
    /\ worker[j].pc = "scheduled"
    /\ response' = NoResponse
    /\ UNCHANGED rate_limit_store
    /\ IF ~Exists(j)
       THEN WorkerExcept(j)
       ELSE IF job_status[j].status = CANCELLED
       THEN /\ worker' = [worker EXCEPT ![j].pc = "done"]
            /\ UNCHANGED job_status
       ELSE IF ~loadOk
       THEN \* processing is written, then load_images_from_folder raises
            /\ worker' = [worker EXCEPT ![j].pc = "done"]
            /\ job_status' = [job_status EXCEPT
                   ![j].status = FAILED,
                   ![j].progress = "Generating contact sheet...",
                   ![j].error = <<"exception">>]
       ELSE /\ worker' = [worker EXCEPT ![j].pc = "sheet"]
            /\ job_status' = [job_status EXCEPT
                   ![j].status = PROCESSING,
                   ![j].progress = "Generating contact sheet..."]

\* generate_image for the contact sheet returns (gg.py:1052-1072).
\* ok: it succeeded; cropOk: crop_contact_sheet does not raise.
SheetDone(j, ok, cropOk) ==
    /\ worker[j].pc = "sheet"
    /\ response' = NoResponse
    /\ UNCHANGED rate_limit_store
    /\ IF ~ok THEN WorkerFinish(j, Outcome("error", FALSE, 0))
       ELSE IF ~cropOk THEN WorkerFinish(j, Outcome("raised", FALSE, 0))
       ELSE /\ worker' = [worker EXCEPT ![j].pc = "upscale"]
            /\ UNCHANGED job_status

\* upscale_frames returns (gg.py:1075-1082): every frame is enhanced or kept,
\* and generate_videos_from_frames starts its first batch.
UpscaleDone(j) ==
    /\ worker[j].pc = "upscale"
    /\ response' = NoResponse
    /\ worker' = [worker EXCEPT ![j].pc = "videos"]
    /\ UNCHANGED <<job_status, rate_limit_store>>

\* generate_videos_from_frames returns (gg.py:1082-1099) with k successful
\* segments; the stitcher is started when there is one at least.
VideosDone(j, k) ==
    /\ worker[j].pc = "videos"
    /\ response' = NoResponse
    /\ UNCHANGED rate_limit_store
    /\ IF k > 0
       THEN /\ worker' = [worker EXCEPT ![j].pc = "stitch", ![j].nsucc = k]
            /\ UNCHANGED job_status
       ELSE WorkerFinish(j, Outcome("ok", FALSE, 0))

\* Mutant of StitchDone: a failed stitch is returned as the pipeline's error.
StitchDone_FailureIsError(j, ok) ==
    /\ worker[j].pc = "stitch"
    /\ response' = NoResponse
    /\ UNCHANGED rate_limit_store
    /\ WorkerFinish(j, IF ok THEN Outcome("ok", TRUE, worker[j].nsucc)
                             ELSE Outcome("error", FALSE, worker[j].nsucc))

\* stitch_videos returns (gg.py:1091-1116); ok: ffmpeg succeeded.
StitchDone(j, ok) ==
    /\ worker[j].pc = "stitch"
    /\ response' = NoResponse
    /\ UNCHANGED rate_limit_store
    /\ WorkerFinish(j, Outcome("ok", ok, worker[j].nsucc))

\* ----------------------------------------------------------------- Next
\* The job level sees the segment stage only through VideosDone: the variables
\* of the single calls stay as they are.
Next ==
    \/ Tick /\ UNCHANGED <<retrier, sched, upscaler>>
    \/ \E ip \in Ips : get_rate_limit(ip) /\ UNCHANGED <<retrier, sched, upscaler>>
    \/ \E ip \in Ips, hasFiles, saveOk, rolled2, rolled3 \in BOOLEAN :
           upload_images(ip, hasFiles, saveOk, rolled2, rolled3)
               /\ UNCHANGED <<retrier, sched, upscaler>>
    \/ \E j \in JobIds : cancel_job(j) /\ UNCHANGED <<retrier, sched, upscaler>>
    \/ \E j \in JobIds : delete_job(j) /\ UNCHANGED <<retrier, sched, upscaler>>
    \/ \E j \in JobIds, loadOk \in BOOLEAN :
           StartWorker(j, loadOk) /\ UNCHANGED <<retrier, sched, upscaler>>
    \/ \E j \in JobIds, ok, cropOk \in BOOLEAN :
           SheetDone(j, ok, cropOk) /\ UNCHANGED <<retrier, sched, upscaler>>
    \/ \E j \in JobIds : UpscaleDone(j) /\ UNCHANGED <<retrier, sched, upscaler>>
    \/ \E j \in JobIds, k \in SegmentOutcomes :
           VideosDone(j, k) /\ UNCHANGED <<retrier, sched, upscaler>>
    \/ \E j \in JobIds, ok \in BOOLEAN :
           StitchDone(j, ok) /\ UNCHANGED <<retrier, sched, upscaler>>

Spec == Init /\ [][Next]_<<vars, retrier, sched, upscaler>>

\* A step of the background task of job j (app.py:208-253).
WorkerStep(j) ==
    \/ \E loadOk \in BOOLEAN : StartWorker(j, loadOk)
    \/ \E ok, cropOk \in BOOLEAN : SheetDone(j, ok, cropOk)
    \/ UpscaleDone(j)
    \/ \E k \in SegmentOutcomes : VideosDone(j, k)
    \/ \E ok \in BOOLEAN : StitchDone(j, ok)

\* The event loop runs every scheduled background task, and every call a
\* task awaits returns or raises.
FairSpec == Spec /\ \A j \in JobIds : WF_vars(WorkerStep(j))

\* ------------------------------------------- one segment call (gg.py:514-650)
\* What _submit_generation_request gives (gg.py:398-456): a 200 answer with or
\* without a status URL, the error strings it builds, or an exception of
\* upload_to_imgbb or of the HTTP client, which it does not catch.
\* The exceptions that leave _submit_generation_request: upload_to_imgbb
\* failing to publish an input image (gg.py:412, 423), and the HTTP client
\* raising a network fault or the 300 s timeout during the POST
\* (gg.py:432-436).
RaisedSubmissions == {"hosting_raised", "network_raised"}

SubmitResults ==
    {"ok", "ok_no_status_url", "insufficient_credits", "forbidden",
     "server_error", "client_error"} \cup RaisedSubmissions

\* What _poll_status returns (gg.py:458-512).
PollResults ==
    {"completed", "missing_video_url", "generation_failed", "poll_timeout",
     "poll_error", "unexpected_poll_error"}

\* What one status query meets (gg.py:482-510): status 200 with "completed"
\* (with or without a video URL), with "failed" (the error text is the
\* service's: an ordinary one, or the very text "poll_timeout"), or with any
\* other status value; a 5xx status; another non-200 status; a timeout or
\* client error of the HTTP library; any other exception.
StatusAnswers ==
    {"completed", "completed_no_url", "failed", "failed_text_poll_timeout",
     "pending", "http_5xx", "http_other", "network_error", "unexpected"}

\* The answers after which _poll_status sleeps and asks again.
TransientAnswers == {"http_5xx", "network_error"}

\* Ticks the clock of _poll_status may advance between two readings.
ClockSteps == 0 .. 2

\* _download_bytes and the write of the file (gg.py:603-606).
DownloadResults == {"ok", "download_raised", "write_raised"}

\* Numbers of configured credential sets (gg.py:524-537); 0: no primary key.
CredentialConfigs == 0 .. 2

\* The call as generate_higgsfield enters it.
CallStart(ncreds) ==
    [pc |-> "start", ncreds |-> ncreds, cred_index |-> 0, attempt |-> 1,
     delay |-> 0, status_url |-> FALSE, video_url |-> FALSE,
     written |-> FALSE, result |-> "none", error |-> "", log |-> << >>,
     poll_interval |-> POLL_INTERVAL_START * IntervalScale, elapsed |-> 0]

\* An entry of the log: the answer `res` of operation `op` under credential
\* set `cred`, received during attempt `attempt`.
Entry(r, op, res) ==
    [op |-> op, cred |-> r.cred_index, attempt |-> r.attempt, res |-> res]

Logged(r, op, res) == [r EXCEPT !.log = Append(r.log, Entry(r, op, res))]

\* Mutant of Caught: generate_higgsfield without its except clause.
Caught_NotCaught(r, error) ==
    [r EXCEPT !.pc = "returned", !.result = "exception", !.error = error]

\* generate_higgsfield's except clause (gg.py:645-650): whatever
\* _generate_higgsfield_video raises becomes one failure outcome.
Caught(r, error) ==
    [r EXCEPT !.pc = "returned", !.result = "failure", !.error = error]

\* The while test and the submission it leads to (gg.py:541-553).
LoopTop(r) ==
    IF r.attempt <= MAX_RETRIES /\ r.cred_index < r.ncreds
        THEN [r EXCEPT !.pc = "submit", !.status_url = FALSE,
                       !.video_url = FALSE]
        ELSE Caught(r, "Failed to generate video after retries")

\* Mutant of Backoff: the delay computed before attempt is incremented.
Backoff_DelayBeforeIncrement(r) ==
    [r EXCEPT !.attempt = r.attempt + 1, !.delay = 2 ^ (r.attempt - 1),
              !.pc = "backoff"]

\* attempt += 1; await asyncio.sleep(2 ** (attempt - 1)) (gg.py:565-567).
Backoff(r) ==
    [r EXCEPT !.attempt = r.attempt + 1, !.delay = 2 ^ r.attempt,
              !.pc = "backoff"]

\* generate_higgsfield is called (gg.py:621-644, 524-541).
HiggsStart ==
    /\ retrier.pc = "start"
    /\ retrier' = IF retrier.ncreds = 0
                      THEN Caught(retrier, "HIGGSFIELD_API_KEY is not configured")
                      ELSE LoopTop(retrier)

\* Mutant of SubmitReturns: the switch of credentials consumes an attempt.
SubmitReturns_SwitchCountsAttempt(res) ==
    /\ retrier.pc = "submit"
    /\ LET r == Logged(retrier, "submit", res)
       IN  retrier' =
               IF res = "ok" THEN [r EXCEPT !.pc = "poll", !.status_url = TRUE]
               ELSE IF res = "ok_no_status_url"
                   THEN Caught(r, "Missing status_url in Higgsfield response")
               ELSE IF res \in RaisedSubmissions THEN Caught(r, "exception")
               ELSE IF res = "insufficient_credits"
                           /\ r.cred_index + 1 < r.ncreds
                   THEN LoopTop([r EXCEPT !.cred_index = r.cred_index + 1,
                                          !.attempt = r.attempt + 1])
               ELSE IF res = "server_error" /\ r.attempt < MAX_RETRIES
                   THEN Backoff(r)
               ELSE Caught(r, res)

\* Mutant of SubmitReturns: a client_error_<status> is retried like a
\* server error.
SubmitReturns_RetriesClientError(res) ==
    /\ retrier.pc = "submit"
    /\ LET r == Logged(retrier, "submit", res)
       IN  retrier' =
               IF res = "ok" THEN [r EXCEPT !.pc = "poll", !.status_url = TRUE]
               ELSE IF res = "ok_no_status_url"
                   THEN Caught(r, "Missing status_url in Higgsfield response")
               ELSE IF res \in RaisedSubmissions THEN Caught(r, "exception")
               ELSE IF res = "insufficient_credits"
                           /\ r.cred_index + 1 < r.ncreds
                   THEN LoopTop([r EXCEPT !.cred_index = r.cred_index + 1])
               ELSE IF res \in {"server_error", "client_error"}
                           /\ r.attempt < MAX_RETRIES
                   THEN Backoff(r)
               ELSE Caught(r, res)

\* Mutant of SubmitReturns: the switch of credentials starts the attempts
\* again at 1.
SubmitReturns_SwitchResetsAttempt(res) ==
    /\ retrier.pc = "submit"
    /\ LET r == Logged(retrier, "submit", res)
       IN  retrier' =
               IF res = "ok" THEN [r EXCEPT !.pc = "poll", !.status_url = TRUE]
               ELSE IF res = "ok_no_status_url"
                   THEN Caught(r, "Missing status_url in Higgsfield response")
               ELSE IF res \in RaisedSubmissions THEN Caught(r, "exception")
               ELSE IF res = "insufficient_credits"
                           /\ r.cred_index + 1 < r.ncreds
                   THEN LoopTop([r EXCEPT !.cred_index = r.cred_index + 1,
                                          !.attempt = 1])
               ELSE IF res = "server_error" /\ r.attempt < MAX_RETRIES
                   THEN Backoff(r)
               ELSE Caught(r, res)

\* _submit_generation_request returns or raises (gg.py:545-574).
SubmitReturns(res) ==
    /\ retrier.pc = "submit"
    /\ LET r == Logged(retrier, "submit", res)
       IN  retrier' =
               IF res = "ok" THEN [r EXCEPT !.pc = "poll", !.status_url = TRUE]
               ELSE IF res = "ok_no_status_url"
                   THEN Caught(r, "Missing status_url in Higgsfield response")
               ELSE IF res \in RaisedSubmissions THEN Caught(r, "exception")
               ELSE IF res = "insufficient_credits"
                           /\ r.cred_index + 1 < r.ncreds
                   THEN LoopTop([r EXCEPT !.cred_index = r.cred_index + 1])
               ELSE IF res = "server_error" /\ r.attempt < MAX_RETRIES
                   THEN Backoff(r)
               ELSE Caught(r, res)

\* asyncio.sleep returns and the loop goes round (gg.py:567-568, 593-594).
BackoffDone ==
    /\ retrier.pc = "backoff"
    /\ retrier' = LoopTop(retrier)

\* _poll_status has returned: its locals are gone, and the next call starts
\* with poll_interval = 2.0 and a new start_time (gg.py:472-473).
PollEnded(r) ==
    [r EXCEPT !.poll_interval = POLL_INTERVAL_START * IntervalScale,
              !.elapsed = 0]

\* Mutant of PollReturns: a poll timeout is retried without consuming an
\* attempt.
PollReturns_TimeoutKeepsAttempt(res) ==
    /\ retrier.pc \in {"poll", "poll_sleep"}
    /\ LET r == Logged(PollEnded(retrier), "poll", res)
       IN  retrier' =
               IF res = "completed"
                   THEN [r EXCEPT !.pc = "download", !.video_url = TRUE]
               ELSE IF res = "poll_timeout" /\ r.attempt < MAX_RETRIES
                   THEN LoopTop(r)
               ELSE IF res = "poll_error" /\ r.attempt < MAX_RETRIES
                   THEN Backoff(r)
               ELSE Caught(r, res)

\* Mutant of PollReturns: a poll timeout is retried without the test of the
\* attempt budget.
PollReturns_RetryWithoutBudgetTest(res) ==
    /\ retrier.pc \in {"poll", "poll_sleep"}
    /\ LET r == Logged(PollEnded(retrier), "poll", res)
       IN  retrier' =
               IF res = "completed"
                   THEN [r EXCEPT !.pc = "download", !.video_url = TRUE]
               ELSE IF res = "poll_timeout"
                   THEN LoopTop([r EXCEPT !.attempt = r.attempt + 1])
               ELSE IF res = "poll_error" /\ r.attempt < MAX_RETRIES
                   THEN Backoff(r)
               ELSE Caught(r, res)

\* _poll_status returns `res` to _generate_higgsfield_video (gg.py:576-601).
PollReturns(res) ==
    /\ retrier.pc \in {"poll", "poll_sleep"}
    /\ LET r == Logged(PollEnded(retrier), "poll", res)
       IN  retrier' =
               IF res = "completed"
                   THEN [r EXCEPT !.pc = "download", !.video_url = TRUE]
               ELSE IF res = "poll_timeout" /\ r.attempt < MAX_RETRIES
                   THEN LoopTop([r EXCEPT !.attempt = r.attempt + 1])
               ELSE IF res = "poll_error" /\ r.attempt < MAX_RETRIES
                   THEN Backoff(r)
               ELSE Caught(r, res)

Min(a, b) == IF a < b THEN a ELSE b

\* Mutant of NextInterval: the product without the cap.
NextInterval_NoCap(poll_interval) ==
    (poll_interval * FACTOR_NUM) \div FACTOR_DEN

\* min(poll_interval * 1.2, 10) (gg.py:498).
NextInterval(poll_interval) ==
    Min((poll_interval * FACTOR_NUM) \div FACTOR_DEN,
        POLL_INTERVAL_CAP * IntervalScale)

\* What _poll_status returns for an answer that ends the poll (gg.py:484-506).
PollOutcome(ans) ==
    CASE ans = "completed"                -> "completed"
      [] ans = "completed_no_url"         -> "missing_video_url"
      [] ans = "failed"                   -> "generation_failed"
      [] ans = "failed_text_poll_timeout" -> "poll_timeout"
      [] ans = "http_other"               -> "poll_error"
      [] ans = "unexpected"               -> "unexpected_poll_error"

\* Mutant of StatusAnswer: a 5xx answer or a network error ends the poll like
\* any other non-200 status.
StatusAnswer_TransientEndsPoll(ans) ==
    /\ retrier.pc = "poll"
    /\ IF ans = "pending"
           THEN retrier' = [retrier EXCEPT
                    !.pc = "poll_sleep",
                    !.poll_interval = NextInterval(retrier.poll_interval)]
       ELSE IF ans \in TransientAnswers
           THEN PollReturns("poll_error")
       ELSE PollReturns(PollOutcome(ans))

\* The status query of _poll_status is answered (gg.py:482-510).
StatusAnswer(ans) ==
    /\ retrier.pc = "poll"
    /\ IF ans = "pending"
           THEN retrier' = [retrier EXCEPT
                    !.pc = "poll_sleep",
                    !.poll_interval = NextInterval(retrier.poll_interval)]
       ELSE IF ans \in TransientAnswers
           THEN retrier' = [retrier EXCEPT !.pc = "poll_sleep"]
       ELSE PollReturns(PollOutcome(ans))

\* Mutant of PollSleepDone: the ceiling tested with >=.
PollSleepDone_TimeoutAtCeiling(dt) ==
    /\ retrier.pc = "poll_sleep"
    /\ IF retrier.elapsed + dt >= MaxWaitTicks
           THEN PollReturns("poll_timeout")
           ELSE retrier' = [retrier EXCEPT !.pc = "poll",
                                           !.elapsed = retrier.elapsed + dt]

\* asyncio.sleep(poll_interval) returns, dt ticks after the clock was last
\* read; the loop reads the clock and asks again or gives up (gg.py:477-483).
PollSleepDone(dt) ==
    /\ retrier.pc = "poll_sleep"
    /\ IF retrier.elapsed + dt > MaxWaitTicks
           THEN PollReturns("poll_timeout")
           ELSE retrier' = [retrier EXCEPT !.pc = "poll",
                                           !.elapsed = retrier.elapsed + dt]

\* _download_bytes returns or raises and the file is written (gg.py:603-617).
DownloadReturns(res) ==
    /\ retrier.pc = "download"
    /\ LET r == Logged(retrier, "download", res)
       IN  retrier' =
               IF res = "ok"
                   THEN [r EXCEPT !.pc = "returned", !.written = TRUE,
                                  !.result = "success"]
                   ELSE Caught(r, "exception")

RetrierInit ==
    /\ job_status = << >>
    /\ rate_limit_store = << >>
    /\ worker = [j \in JobIds |-> NoWorker]
    /\ response = NoResponse
    /\ sched = NotScheduled
    /\ upscaler = NotUpscaling
    /\ \E ncreds \in CredentialConfigs : retrier = CallStart(ncreds)

RetrierNext ==
    \/ HiggsStart /\ UNCHANGED <<vars, sched, upscaler>>
    \/ \E res \in SubmitResults : SubmitReturns(res) /\ UNCHANGED <<vars, sched, upscaler>>
    \/ BackoffDone /\ UNCHANGED <<vars, sched, upscaler>>
    \/ \E ans \in StatusAnswers : StatusAnswer(ans) /\ UNCHANGED <<vars, sched, upscaler>>
    \/ \E dt \in ClockSteps : PollSleepDone(dt) /\ UNCHANGED <<vars, sched, upscaler>>
    \/ \E res \in DownloadResults : DownloadReturns(res) /\ UNCHANGED <<vars, sched, upscaler>>

RetrierSpec == RetrierInit /\ [][RetrierNext]_<<vars, retrier, sched, upscaler>>

\* The awaited calls return: a step is taken whenever one is possible, and a
\* call of _poll_status in progress returns (gg.py:576-581).
RetrierFairSpec ==
    /\ RetrierSpec
    /\ WF_retrier(RetrierNext)
    /\ WF_retrier(\E res \in PollResults : PollReturns(res))

\* --------------------------------- the segment batches (gg.py:854-918)
\* The segment tasks, numbered as the loop variable i numbers them.
Tasks == 0 .. NUM_SEGMENTS - 1

\* How one generate_single_video(i) can end: generate_higgsfield's success or
\* failure dict, or an exception.
TaskKinds == {"success", "failure", "exception"}

\* batch_end and batch_indices of the batch that starts at batch_start
\* (gg.py:889-890).
BatchEnd(batch_start) ==
    IF batch_start + BATCH_SIZE < NUM_SEGMENTS
        THEN batch_start + BATCH_SIZE ELSE NUM_SEGMENTS

BatchIndices(batch_start) == batch_start .. BatchEnd(batch_start) - 1

\* What task i gives to gather: task i works on frame_paths[i] and
\* frame_paths[i + 1] and writes segment i + 1 (gg.py:862-881).
TaskResult(i, kind) ==
    [task |-> i, start_frame |-> i, end_frame |-> i + 1, kind |-> kind]

\* The file task i asks generate_higgsfield to write (gg.py:865), which a
\* success dict carries as "path" (gg.py:612-617); a failure dict has none.
SegmentPath(i) == [dir |-> "videos", n |-> i + 1]
NoPath == [dir |-> "none", n |-> 0]

\* The outcome the loop appends for one gathered result (gg.py:899-911): an
\* exception becomes a failure dict, a returned dict is appended as it is.
Appended(res) ==
    [task |-> res.task, start_frame |-> res.start_frame,
     path |-> IF res.kind = "success" THEN SegmentPath(res.task) ELSE NoPath,
     end_frame |-> res.end_frame, success |-> res.kind = "success"]

\* The function as process_car_images calls it (gg.py:1082-1086).
SchedStart ==
    [pc |-> "entry", nframes |-> NUM_FRAMES, batch_start |-> 0,
     task |-> [i \in Tasks |-> "unstarted"], finished |-> << >>,
     videos |-> << >>, pauses |-> 0, stitch_calls |-> << >>,
     final_video |-> FALSE]

\* The tasks in flight.
Running == {i \in Tasks : sched.task[i] = "running"}

\* batch_tasks = [...]; await asyncio.gather(...) (gg.py:895-896).
StartBatch(sc, batch_start) ==
    [sc EXCEPT !.pc = "gather", !.batch_start = batch_start,
               !.finished = << >>,
               !.task = [i \in Tasks |->
                            IF i \in BatchIndices(batch_start)
                                THEN "running" ELSE sc.task[i]]]

\* generate_videos_from_frames is entered (gg.py:856-896).
GenerateVideos ==
    /\ sched.pc = "entry"
    /\ sched' = IF sched.nframes # NUM_FRAMES
                    THEN [sched EXCEPT !.pc = "raised"]
                    ELSE StartBatch(sched, 0)

\* Task i of the running batch ends (gg.py:873-881).
TaskDone(i, kind) ==
    /\ sched.pc = "gather"
    /\ i \in Running
    /\ sched' = [sched EXCEPT
           !.task[i] = kind,
           !.finished = Append(sched.finished, TaskResult(i, kind))]

\* Mutant of GatherResults: the results in the order of completion.
GatherResults_AsCompleted == sched.finished

\* The results gather hands back: one per awaitable, in the order of the
\* awaitables, whatever the order of completion.
GatherResults ==
    [k \in 1 .. Len(sched.finished) |->
        LET i == sched.batch_start + k - 1
        IN  TaskResult(i, sched.task[i])]

\* The videos list after the zip loop over results (gg.py:899-911).
RECURSIVE AppendAll(_, _)
AppendAll(videos, results) ==
    IF results = << >> THEN videos
    ELSE AppendAll(Append(videos, Appended(Head(results))), Tail(results))

\* Mutant of GatherReturns: no sleep between the batches.
GatherReturns_NoCooldown ==
    /\ sched.pc = "gather"
    /\ Running = {}
    /\ LET videos == AppendAll(sched.videos, GatherResults)
       IN  sched' =
               IF BatchEnd(sched.batch_start) < NUM_SEGMENTS
                   THEN StartBatch([sched EXCEPT !.videos = videos],
                                   sched.batch_start + BATCH_SIZE)
                   ELSE [sched EXCEPT !.videos = videos, !.pc = "returned"]

\* Mutant of GatherReturns: gather without return_exceptions, so that the
\* exception of a task is raised by the await.
GatherReturns_ExceptionRaised ==
    /\ sched.pc = "gather"
    /\ Running = {}
    /\ LET videos == AppendAll(sched.videos, GatherResults)
       IN  sched' =
               IF \E k \in 1 .. Len(sched.finished) :
                      sched.finished[k].kind = "exception"
                   THEN [sched EXCEPT !.pc = "raised"]
               ELSE IF BatchEnd(sched.batch_start) < NUM_SEGMENTS
                   THEN [sched EXCEPT !.videos = videos, !.pc = "cooldown",
                                      !.pauses = sched.pauses + 1]
                   ELSE [sched EXCEPT !.videos = videos, !.pc = "returned"]

\* Every task of the batch has ended: gather returns, the outcomes are
\* appended, and the function sleeps or returns (gg.py:896-918).
GatherReturns ==
    /\ sched.pc = "gather"
    /\ Running = {}
    /\ LET videos == AppendAll(sched.videos, GatherResults)
       IN  sched' =
               IF BatchEnd(sched.batch_start) < NUM_SEGMENTS
                   THEN [sched EXCEPT !.videos = videos, !.pc = "cooldown",
                                      !.pauses = sched.pauses + 1]
                   ELSE [sched EXCEPT !.videos = videos, !.pc = "returned"]

\* asyncio.sleep(2) returns and the next batch starts (gg.py:914-916, 888-896).
CooldownDone ==
    /\ sched.pc = "cooldown"
    /\ sched' = StartBatch(sched, sched.batch_start + BATCH_SIZE)

\* Mutant of SuccessfulVideoPaths: the list comprehension without its filter.
SuccessfulVideoPaths_KeepsFailed(videos) ==
    [k \in 1 .. Len(videos) |-> videos[k].path]

\* successful_video_paths of process_car_images (gg.py:1085).
SuccessfulVideoPaths(videos) ==
    LET kept == SelectSeq(videos, LAMBDA v : v.success /\ v.path # NoPath)
    IN  [k \in 1 .. Len(kept) |-> kept[k].path]

\* generate_videos_from_frames has returned to process_car_images, which
\* calls stitch_videos when a segment succeeded (gg.py:1082-1098);
\* stitch_calls: the inputs stitch_videos was called with.
StitchVideos ==
    /\ sched.pc = "returned"
    /\ LET paths == SuccessfulVideoPaths(sched.videos)
       IN  sched' =
               IF paths # << >>
                   THEN [sched EXCEPT
                            !.pc = "stitch",
                            !.stitch_calls = Append(sched.stitch_calls, paths)]
                   ELSE [sched EXCEPT !.pc = "finished"]

\* stitch_videos returns its dict; it raises nothing (gg.py:920-985,
\* 1091-1096).
StitchReturns(ok) ==
    /\ sched.pc = "stitch"
    /\ sched' = [sched EXCEPT !.pc = "finished", !.final_video = ok]

SchedInit ==
    /\ job_status = << >>
    /\ rate_limit_store = << >>
    /\ worker = [j \in JobIds |-> NoWorker]
    /\ response = NoResponse
    /\ retrier = NotCalled
    /\ sched = SchedStart
    /\ upscaler = NotUpscaling

SchedNext ==
    \/ GenerateVideos /\ UNCHANGED <<vars, retrier, upscaler>>
    \/ \E i \in Tasks, kind \in TaskKinds :
           TaskDone(i, kind) /\ UNCHANGED <<vars, retrier, upscaler>>
    \/ GatherReturns /\ UNCHANGED <<vars, retrier, upscaler>>
    \/ CooldownDone /\ UNCHANGED <<vars, retrier, upscaler>>
    \/ StitchVideos /\ UNCHANGED <<vars, retrier, upscaler>>
    \/ \E ok \in BOOLEAN :
           StitchReturns(ok) /\ UNCHANGED <<vars, retrier, upscaler>>

SchedSpec == SchedInit /\ [][SchedNext]_<<vars, retrier, sched, upscaler>>

\* ------------------------------------- the frame enhancement (gg.py:987-1027)
\* The k-th crop of the contact sheet, as crop_contact_sheet names it
\* (gg.py:813-852), and the file upscale_frames asks generate_image to write
\* for it (gg.py:1005).
FramePath(k) == [dir |-> "frames", n |-> k]
UpscaledPath(k) == [dir |-> "upscaled_frames", n |-> k]

\* The function as process_car_images calls it (gg.py:1074-1077): with the
\* crops in order.  i: the loop variable of enumerate(frame_paths, 1);
\* succeeded: how the calls of generate_image ended, in the order made.
UpscaleStart ==
    [pc |-> "entry",
     frame_paths |-> [k \in 1 .. NUM_FRAMES |-> FramePath(k)],
     i |-> 0, upscaled_paths |-> << >>, succeeded |-> << >>]

\* The loop takes the next frame and awaits generate_image for it, or the
\* list is through and the function returns (gg.py:1004-1027).
NextFrame(u) ==
    IF u.i < Len(u.frame_paths)
        THEN [u EXCEPT !.pc = "await", !.i = u.i + 1]
        ELSE [u EXCEPT !.pc = "returned"]

\* upscale_frames is entered (gg.py:987-1004).
UpscaleFrames ==
    /\ upscaler.pc = "entry"
    /\ upscaler' = NextFrame(upscaler)

\* Mutant of GenerateImageReturns: a frame whose enhancement failed is left
\* out of the list.
GenerateImageReturns_FailureDropsFrame(success) ==
    /\ upscaler.pc = "await"
    /\ upscaler' = NextFrame([upscaler EXCEPT
           !.succeeded = Append(upscaler.succeeded, success),
           !.upscaled_paths =
               IF success
                   THEN Append(upscaler.upscaled_paths, UpscaledPath(upscaler.i))
                   ELSE upscaler.upscaled_paths])

\* generate_image returns its dict for frame i; it catches its own
\* exceptions (gg.py:210, 313-318), so it returns in every case
\* (gg.py:1009-1025).
GenerateImageReturns(success) ==
    /\ upscaler.pc = "await"
    /\ upscaler' = NextFrame([upscaler EXCEPT
           !.succeeded = Append(upscaler.succeeded, success),
           !.upscaled_paths =
               Append(upscaler.upscaled_paths,
                      IF success THEN UpscaledPath(upscaler.i)
                                 ELSE upscaler.frame_paths[upscaler.i])])

UpscaleInit ==
    /\ job_status = << >>
    /\ rate_limit_store = << >>
    /\ worker = [j \in JobIds |-> NoWorker]
    /\ response = NoResponse
    /\ retrier = NotCalled
    /\ sched = NotScheduled
    /\ upscaler = UpscaleStart

UpscaleNext ==
    \/ UpscaleFrames /\ UNCHANGED <<vars, retrier, sched>>
    \/ \E success \in BOOLEAN :
           GenerateImageReturns(success) /\ UNCHANGED <<vars, retrier, sched>>

UpscaleSpec == UpscaleInit /\ [][UpscaleNext]_<<vars, retrier, sched, upscaler>>

\* ======================================================================
\* Properties
\* ======================================================================
Status(j) == job_status[j].status
HasResult(j) == job_status[j].result # Unset
HasError(j) == job_status[j].error # Unset
Jobs == DOMAIN job_status

\* C1: once a job's status is completed, failed or cancelled, no step of the
\* worker or of cancel_job changes it: as long as the record exists, its
\* status stays what it is.
C1_TerminalStatusIsFinal ==
    [][\A j \in JobIds :
          (j \in Jobs /\ Status(j) \in Terminal /\ j \in DOMAIN job_status')
              => job_status'[j].status = Status(j)]_vars

\* A completed job has just refused a cancel request and is still completed.
C1_Witness ==
    \E j \in Jobs : Status(j) = COMPLETED /\ response = Resp("cancel", 400)

\* C2: no job carries both a result and an error; in particular a terminal
\* job has at most one of the two.
C2_NeverResultAndError ==
    \A j \in Jobs : ~(HasResult(j) /\ HasError(j))

\* A job has failed with an error and no result, its worker has ended.
C2_Witness ==
    \E j \in Jobs :
        Status(j) = FAILED /\ HasError(j) /\ ~HasResult(j) /\ worker[j].pc = "done"

\* C3 as stated: every terminal job has exactly one of result and error set.
C3_TerminalExactlyOne ==
    \A j \in Jobs : Status(j) \in Terminal => (HasResult(j) # HasError(j))

\* C3 amended: a completed or failed job has exactly one of result and error
\* set; a cancelled job has neither.
C3_ExactlyOneUnlessCancelled ==
    \A j \in Jobs :
        /\ Status(j) \in {COMPLETED, FAILED} => (HasResult(j) # HasError(j))
        /\ Status(j) = CANCELLED => (~HasResult(j) /\ ~HasError(j))

\* A job cancelled while processing, whose worker has since ended, has neither.
C3_Witness ==
    \E j \in Jobs :
        /\ Status(j) = CANCELLED /\ worker[j].pc = "done"
        /\ ~HasResult(j) /\ ~HasError(j)

\* C4: a queued or processing job has neither result nor error; a result is
\* set only in status completed, an error only in status failed.
C4_FieldsMatchStatus ==
    \A j \in Jobs :
        /\ Status(j) \in {QUEUED, PROCESSING} => (~HasResult(j) /\ ~HasError(j))
        /\ HasResult(j) => Status(j) = COMPLETED
        /\ HasError(j) => Status(j) = FAILED

\* A job is processing, far into its pipeline, with neither field set.
C4_Witness ==
    \E j \in Jobs :
        /\ Status(j) = PROCESSING /\ worker[j].pc = "stitch"
        /\ ~HasResult(j) /\ ~HasError(j)

\* C5: a queued job's worker has not started; cancel_job on it leaves the
\* worker unstarted; and from a job cancelled before its worker started, the
\* worker never enters the pipeline and the status never becomes processing
\* (the same holds when the record has been deleted meanwhile).
C5_CancelledWhileQueuedNeverRuns ==
    [][\A j \in JobIds :
          /\ (j \in Jobs /\ Status(j) = QUEUED) => worker[j].pc = "scheduled"
          /\ (j \in Jobs /\ Status(j) = QUEUED /\ cancel_job(j))
                 => (job_status'[j].status = CANCELLED
                     /\ worker'[j].pc = "scheduled")
          /\ (worker[j].pc = "scheduled"
              /\ (j \in Jobs => Status(j) = CANCELLED))
                 => /\ worker'[j].pc \in {"scheduled", "done", "crashed"}
                    /\ (j \in DOMAIN job_status'
                           => job_status'[j].status = CANCELLED)]_vars

\* A job has been cancelled while queued: its worker has not yet run.
C5_Witness ==
    \E j \in Jobs : Status(j) = CANCELLED /\ worker[j].pc = "scheduled"

\* C6: from a job cancelled while its pipeline runs, no step changes the
\* record (status, progress, result, error) as long as it exists, and the
\* worker, when it leaves the pipeline, ends.
C6_CancelledWhileProcessingStays ==
    [][\A j \in JobIds :
          (j \in Jobs /\ Status(j) = CANCELLED /\ worker[j].pc \in PipelinePcs)
              => /\ (j \in DOMAIN job_status' => job_status'[j] = job_status[j])
                 /\ (worker'[j].pc \notin PipelinePcs
                        => worker'[j].pc \in {"done", "crashed"})]_vars

\* A job cancelled during processing whose pipeline went on to produce
\* segments; the worker has ended and the job is still cancelled.
C6_Witness ==
    \E j \in Jobs :
        Status(j) = CANCELLED /\ worker[j].pc = "done" /\ worker[j].nsucc > 0

\* C7: cancel_job on a known job answers 200 and sets status cancelled exactly
\* when the status is queued or processing; otherwise it answers 400 and
\* leaves the job table unchanged.
C7_CancelOnlyFromQueuedOrProcessing ==
    [][\A j \in JobIds :
          (j \in Jobs /\ cancel_job(j))
              => IF Status(j) \in {QUEUED, PROCESSING}
                 THEN response'.code = 200 /\ job_status'[j].status = CANCELLED
                 ELSE response'.code = 400 /\ job_status' = job_status]_vars

\* A cancel request has just succeeded on a job whose pipeline is running.
C7_Witness ==
    \E j \in Jobs :
        /\ Status(j) = CANCELLED /\ worker[j].pc \in PipelinePcs
        /\ response = Resp("cancel", 200)

\* C8 as stated: once a job is cancelled while its pipeline runs, the
\* coordinator starts no later stage: the worker stays in the stage it is in
\* or ends.
C8_NoStageStartsAfterCancel ==
    [][\A j \in JobIds :
          (j \in Jobs /\ Status(j) = CANCELLED /\ worker[j].pc \in PipelinePcs)
              => worker'[j].pc \in {worker[j].pc, "done", "crashed"}]_vars

\* C9: a record's count never exceeds MAX_GENERATIONS_PER_DAY, and an upload
\* (with files) by an identity whose record carries today's date and the
\* maximum count is answered 429, creates no job, schedules no worker and
\* leaves the count unchanged.
C9_CountNeverExceedsMax ==
    /\ [](\A ip \in DOMAIN rate_limit_store :
              rate_limit_store[ip].count <= MAX_GENERATIONS_PER_DAY)
    /\ [][\A ip \in Ips :
             (/\ ip \in DOMAIN rate_limit_store
              /\ rate_limit_store[ip] =
                     [date |-> TODAY, count |-> MAX_GENERATIONS_PER_DAY]
              /\ \E saveOk, rolled2, rolled3 \in BOOLEAN :
                     upload_images(ip, TRUE, saveOk, rolled2, rolled3))
                 => /\ response' = Resp("upload", 429)
                    /\ job_status' = job_status
                    /\ worker' = worker
                    /\ rate_limit_store'[ip] = rate_limit_store[ip]]_vars

\* An upload has just been refused with 429 at the maximum count.
C9_Witness ==
    \E ip \in DOMAIN rate_limit_store :
        /\ rate_limit_store[ip] =
               [date |-> TODAY, count |-> MAX_GENERATIONS_PER_DAY]
        /\ response = Resp("upload", 429)

\* C10 as stated: for an identity whose record holds the maximum count of an
\* earlier day, an upload (with files that can be saved) is accepted and
\* leaves the record at the current date with count 1.  The clock does not
\* pass midnight after the count was incremented (rolled3 = FALSE), so the
\* date of the increment is the current date when the handler returns.
C10_FirstUploadAfterRollover ==
    [][\A ip \in Ips, rolled2 \in BOOLEAN :
          (/\ ip \in DOMAIN rate_limit_store
           /\ rate_limit_store[ip] =
                  [date |-> EARLIER, count |-> MAX_GENERATIONS_PER_DAY]
           /\ upload_images(ip, TRUE, TRUE, rolled2, FALSE))
              => /\ response'.code = 200
                 /\ rate_limit_store'[ip] = [date |-> TODAY, count |-> 1]]_vars

\* The record check_rate_limit would write for a first call of the day.
FreshRecord == [date |-> TODAY, count |-> 0]

\* `store` with the record of ip replaced by a fresh one.
WithFresh(store, ip) == DictSet(store, ip, FreshRecord)

\* The store increment_rate_limit finds in an upload that starts now;
\* rolled2: midnight passes between the admission check and the increment.
StoreAtIncrement(ip, rolled2) ==
    LaterRead(CheckStore(rate_limit_store, ip), rolled2)

\* C11 as stated: wherever a rate-limiter operation meets a record of an
\* earlier day, its returned values and the record it leaves are those a
\* fresh record {today, 0} would give: for check_rate_limit (also as called
\* by the introspection endpoint) and for increment_rate_limit as called by
\* an admitted upload.
C11_StaleRecordActsAsFresh ==
    \A ip \in Ips, rolled2 \in BOOLEAN :
        /\ (ip \in DOMAIN rate_limit_store /\ rate_limit_store[ip].date # TODAY)
               => /\ CheckStore(rate_limit_store, ip)
                         = CheckStore(WithFresh(rate_limit_store, ip), ip)
                  /\ CheckResult(rate_limit_store, ip)
                         = CheckResult(WithFresh(rate_limit_store, ip), ip)
        /\ (/\ CheckResult(rate_limit_store, ip).is_allowed
            /\ StoreAtIncrement(ip, rolled2)[ip].date # TODAY)
               => IncrementStore(StoreAtIncrement(ip, rolled2), ip)
                      = IncrementStore(WithFresh(StoreAtIncrement(ip, rolled2), ip), ip)

\* C12: the introspection endpoint and an accepted upload report
\* remaining = max(0, MAX_GENERATIONS_PER_DAY - count) of the record the check
\* leaves, never a negative number, and the endpoint reports is_allowed
\* exactly when that count is below the maximum.
C12_RemainingClampedAllowedBelowMax ==
    [][\A ip \in Ips :
          /\ get_rate_limit(ip)
                => LET count == rate_limit_store'[ip].count
                   IN  /\ response'.remaining
                              = Max(0, MAX_GENERATIONS_PER_DAY - count)
                       /\ response'.remaining >= 0
                       /\ response'.used = count
                       /\ response'.is_allowed
                              <=> (count < MAX_GENERATIONS_PER_DAY)
          /\ (\E saveOk, rolled2, rolled3 \in BOOLEAN :
                  upload_images(ip, TRUE, saveOk, rolled2, rolled3))
                => /\ response'.remaining >= 0
                   /\ response'.code = 200
                          => response'.remaining
                                 = Max(0, MAX_GENERATIONS_PER_DAY
                                              - rate_limit_store'[ip].count)
                   /\ response'.code = 429
                          => rate_limit_store'[ip].count
                                 >= MAX_GENERATIONS_PER_DAY]_vars

\* The endpoint has just reported an exhausted allowance.
C12_Witness ==
    /\ response.op = "rate_limit"
    /\ response.remaining = 0
    /\ ~response.is_allowed
    /\ response.used = MAX_GENERATIONS_PER_DAY

\* The count the record of ip stands for today (0 when absent or stale).
CountToday(ip) ==
    IF ip \in DOMAIN rate_limit_store /\ rate_limit_store[ip].date = TODAY
        THEN rate_limit_store[ip].count ELSE 0

\* C13: upload_images runs from its admission check to its increment without
\* an await, so on one day every admitted upload raises the identity's count
\* by exactly one over the count the day had before it, and no other step
\* changes the count of a record that keeps today's date: the count is the
\* number of uploads admitted that day.
C13_NoLostIncrement ==
    [][\A ip \in Ips :
          /\ (\E saveOk \in BOOLEAN :
                  upload_images(ip, TRUE, saveOk, FALSE, FALSE))
                => rate_limit_store'[ip].count
                       = CountToday(ip) + (IF response'.code = 200 THEN 1 ELSE 0)
          /\ (/\ response'.op # "upload"
              /\ ip \in DOMAIN rate_limit_store
              /\ ip \in DOMAIN rate_limit_store'
              /\ rate_limit_store[ip].date = TODAY
              /\ rate_limit_store'[ip].date = TODAY)
                => rate_limit_store'[ip].count = rate_limit_store[ip].count]_vars

\* Several uploads have been admitted today, the last one just now.
C13_Witness ==
    \E ip \in DOMAIN rate_limit_store :
        /\ rate_limit_store[ip] = [date |-> TODAY, count |-> 3]
        /\ response.op = "upload" /\ response.code = 200

\* Job j's status becomes failed in this step.
BecomesFailed(j) ==
    /\ Exists(j) /\ job_status[j].status # FAILED
    /\ j \in DOMAIN job_status' /\ job_status'[j].status = FAILED

\* The pipeline of job j is past the contact sheet and its frames.
PastFrames(j) == worker[j].pc \in {"upscale", "videos", "stitch"}

SegmentsListed(result) == "videos" \in DOMAIN result

\* C20 as stated: a job whose stitching failed after at least one segment
\* succeeded is completed, its result has no final artifact, and its result
\* still lists the segments.
C20_StitchFailureKeepsSegments ==
    \A j \in Jobs :
        (/\ worker[j].pc = "done"
         /\ HasResult(j)
         /\ job_status[j].result[1].summary.successful_videos > 0
         /\ ~job_status[j].result[1].final_video)
            => /\ Status(j) = COMPLETED
               /\ SegmentsListed(job_status[j].result[1])

\* The submissions made so far under credential set c, as logged.
SubmissionsOf(c) ==
    SelectSeq(retrier.log, LAMBDA e : e.op = "submit" /\ e.cred = c)

\* The last three answers the call received.
LastThree ==
    IF Len(retrier.log) < 3 THEN << >>
    ELSE SubSeq(retrier.log, Len(retrier.log) - 2, Len(retrier.log))

\* C17: generate_higgsfield returns success only when, in one attempt under
\* one credential set, the submission succeeded, the poll reported completed
\* with a video URL and the artifact was downloaded and written; every other
\* run that returns gives one failure outcome with one error and no file, and
\* no exception leaves the function.
C17_SuccessOnlyAfterSubmitPollDownload ==
    /\ retrier.result \in {"none", "success", "failure"}
    /\ (retrier.pc = "returned") <=> (retrier.result # "none")
    /\ retrier.result = "success"
           => /\ retrier.status_url /\ retrier.video_url /\ retrier.written
              /\ Len(LastThree) = 3
              /\ LastThree[1].op = "submit" /\ LastThree[1].res = "ok"
              /\ LastThree[2].op = "poll" /\ LastThree[2].res = "completed"
              /\ LastThree[3].op = "download" /\ LastThree[3].res = "ok"
              /\ \A i \in 1 .. 3 :
                     /\ LastThree[i].cred = retrier.cred_index
                     /\ LastThree[i].attempt = retrier.attempt
    /\ retrier.result # "success"
           => /\ ~retrier.written
              /\ (retrier.result = "failure") <=> (retrier.error # "")

\* The call succeeded on its last attempt after earlier ones were retried.
C17_Witness ==
    /\ retrier.pc = "returned"
    /\ retrier.result = "success"
    /\ retrier.attempt = MAX_RETRIES
    /\ Len(retrier.log) > 3

\* The answers so far fit a primary credential set that is always out of
\* credits and a secondary one for which every step succeeds.
PrimaryExhaustedSecondaryWorks ==
    /\ retrier.ncreds = 2
    /\ \A i \in 1 .. Len(retrier.log) :
           retrier.log[i].res =
               IF retrier.log[i].op = "submit"
                   THEN (IF retrier.log[i].cred = 0
                             THEN "insufficient_credits" ELSE "ok")
               ELSE IF retrier.log[i].op = "poll" THEN "completed" ELSE "ok"

\* C18: a submission that is refused for insufficient credits while a further
\* credential set is configured is followed at once by a submission under the
\* next set in the same attempt; and when the primary set is always refused
\* for credits and the secondary succeeds, the call returns success after
\* exactly one submission under each set.
C18_QuotaSwitchKeepsAttempt ==
    /\ \A i \in 1 .. Len(retrier.log) :
           (/\ retrier.log[i].op = "submit"
            /\ retrier.log[i].res = "insufficient_credits"
            /\ retrier.log[i].cred + 1 < retrier.ncreds)
               => IF i < Len(retrier.log)
                      THEN /\ retrier.log[i + 1].op = "submit"
                           /\ retrier.log[i + 1].cred = retrier.log[i].cred + 1
                           /\ retrier.log[i + 1].attempt = retrier.log[i].attempt
                      ELSE /\ retrier.pc = "submit"
                           /\ retrier.cred_index = retrier.log[i].cred + 1
                           /\ retrier.attempt = retrier.log[i].attempt
    /\ (retrier.pc = "returned" /\ PrimaryExhaustedSecondaryWorks)
           => /\ retrier.result = "success"
              /\ Len(SubmissionsOf(0)) = 1
              /\ Len(SubmissionsOf(1)) = 1

\* The primary set was refused for credits, the secondary one carried the
\* call to success.
C18_Witness ==
    /\ retrier.pc = "returned"
    /\ PrimaryExhaustedSecondaryWorks
    /\ retrier.result = "success"
    /\ Len(retrier.log) = 4

\* C14: when generate_videos_from_frames returns, its list has exactly one
\* outcome per segment task, and the outcome at position i is the one of task
\* i, which worked from frame i to frame i + 1, whatever the order in which the
\* tasks of a batch completed.
C14_OneOutcomePerTaskInOrder ==
    /\ sched.pc = "returned"
           => /\ Len(sched.videos) = NUM_SEGMENTS
              /\ \A i \in Tasks :
                     /\ sched.videos[i + 1].task = i
                     /\ sched.videos[i + 1].start_frame = i
                     /\ sched.videos[i + 1].end_frame = i + 1
                     /\ sched.videos[i + 1].success
                            <=> (sched.task[i] = "success")
    /\ \A k \in 1 .. Len(sched.videos) : sched.videos[k].task = k - 1

\* The function returned although the tasks of the last batch completed in
\* the reverse of their order, one failing and one succeeding.
C14_Witness ==
    /\ sched.pc = "returned"
    /\ Len(sched.finished) = 2
    /\ sched.finished[1].task > sched.finished[2].task
    /\ sched.finished[1].kind = "success"
    /\ sched.finished[2].kind = "failure"

\* C15: the tasks run in consecutive batches of at most BATCH_SIZE: never
\* more than BATCH_SIZE are in flight, the tasks in flight belong to one
\* batch, every task of the batches before it has its outcome in the list
\* before any of them starts, and one cool-down pause has been taken for
\* every batch before the current one.
C15_BatchesOfThreeInSequence ==
    /\ Cardinality(Running) <= BATCH_SIZE
    /\ Running \subseteq BatchIndices(sched.batch_start)
    /\ \A i \in Tasks :
           sched.task[i] # "unstarted"
               => /\ i < BatchEnd(sched.batch_start)
                  /\ \A h \in Tasks :
                         h < sched.batch_start
                             => /\ sched.task[h] \in TaskKinds
                                /\ h < Len(sched.videos)
    /\ sched.pc = "gather"
           => /\ sched.pauses * BATCH_SIZE = sched.batch_start
              /\ Len(sched.videos) = sched.batch_start
    /\ sched.pc = "cooldown" => Running = {}

\* The last batch is in flight after two pauses, the six earlier tasks done.
C15_Witness ==
    /\ sched.pc = "gather"
    /\ sched.pauses = 2
    /\ Running = {6, 7}
    /\ Len(sched.videos) = 6

\* C16: a task that returns a failure or raises gives a failure outcome for
\* itself only: the function never raises, every task that returned success
\* keeps a success outcome, and when the function returns every task of
\* every batch has run to an outcome of its own.
C16_FailureStaysWithItsTask ==
    /\ sched.pc # "raised"
    /\ \A k \in 1 .. Len(sched.videos) :
           sched.videos[k].success
               <=> (sched.task[sched.videos[k].task] = "success")
    /\ sched.pc = "returned"
           => /\ \A i \in Tasks : sched.task[i] \in TaskKinds
              /\ Len(sched.videos) = NUM_SEGMENTS
    /\ (sched.pc = "cooldown"
            /\ \E k \in 1 .. Len(sched.finished) :
                   sched.finished[k].kind # "success")
           => Len(sched.videos) = BatchEnd(sched.batch_start)

\* A task of the first batch raised and another failed, yet their sibling
\* and a task of the last batch succeeded and the function returned.
C16_Witness ==
    /\ sched.pc = "returned"
    /\ sched.task[0] = "exception"
    /\ sched.task[1] = "failure"
    /\ sched.task[2] = "success"
    /\ sched.task[NUM_SEGMENTS - 1] = "success"
    /\ ~sched.videos[1].success /\ ~sched.videos[2].success
    /\ sched.videos[3].success /\ sched.videos[NUM_SEGMENTS].success

\* The job's result names its frames.
FramesListed(result) == "frame_paths" \in DOMAIN result

\* C21 as stated: the result of a completed job carries the frame paths, the
\* segment paths, the final path and a summary whose total_videos is the
\* number of frames minus one and whose successful and failed counts add up
\* to it.
C21_CompletedResultCarriesPathsAndSummary ==
    \A j \in Jobs :
        Status(j) = COMPLETED
            => LET result == job_status[j].result[1]
               IN  /\ FramesListed(result)
                   /\ SegmentsListed(result)
                   /\ "final_video" \in DOMAIN result
                   /\ result.summary.total_videos
                          = result.summary.total_frames - 1
                   /\ result.summary.successful_videos
                          + result.summary.failed_videos
                          = result.summary.total_videos

\* The upload of ip that starts now is refused for quota.
Exhausted(ip) == CountToday(ip) >= MAX_GENERATIONS_PER_DAY

\* C22: an upload without files is answered 400 and an upload of an identity
\* whose count for today has reached the maximum is answered 429; either
\* leaves the job table, the background tasks and the rate-limit store as
\* they were.  An upload answered 200 adds exactly one job record, in status
\* queued, with one background task scheduled for it, and changes no other.
C22_RejectedUploadChangesNothing ==
    [][\A ip \in Ips :
          /\ (\E saveOk, rolled2, rolled3 \in BOOLEAN :
                  upload_images(ip, FALSE, saveOk, rolled2, rolled3))
                => /\ response'.code = 400
                   /\ UNCHANGED <<job_status, worker, rate_limit_store>>
          /\ (\E saveOk, rolled2, rolled3 \in BOOLEAN :
                  upload_images(ip, TRUE, saveOk, rolled2, rolled3))
                => /\ (response'.code = 429) <=> Exhausted(ip)
                   /\ response'.code = 429
                          => UNCHANGED <<job_status, worker, rate_limit_store>>
                   /\ response'.code = 200
                          => \E j \in JobIds :
                                 /\ ~Exists(j)
                                 /\ DOMAIN job_status' = Jobs \cup {j}
                                 /\ job_status'[j].status = QUEUED
                                 /\ worker'[j].pc = "scheduled"
                                 /\ \A k \in Jobs : job_status'[k] = job_status[k]
                                 /\ \A k \in JobIds \ {j} : worker'[k] = worker[k]
                   /\ response'.code # 200
                          => UNCHANGED <<job_status, worker>>]_vars

\* An upload has just been refused for quota while the identity's record
\* stands at the maximum.
C22_Witness ==
    /\ response.op = "upload"
    /\ response.code = 429
    /\ \E ip \in Ips : Exhausted(ip)

\* C23 as stated: for every known job, whatever its status, and for both
\* artifact kinds, the download answers with the artifact (200) or with a
\* not-ready (400) or not-found (404) error, never with an unhandled fault.
C23_DownloadNeverFaults ==
    \A j \in Jobs, fileExists \in BOOLEAN :
        /\ download_video(j, fileExists).code \in {200, 400, 404}
        /\ download_contact_sheet(j, fileExists).code \in {200, 400, 404}

\* The last answer the call received.
LastEntry == retrier.log[Len(retrier.log)]

\* C24: a submission answered with a server error while attempt is below
\* MAX_RETRIES is followed by a submission under the same credential set in
\* the next attempt, after a sleep of 2 ** (attempt - 1) seconds for the new
\* attempt number (2 s, then 4 s); answered so in attempt MAX_RETRIES it is
\* the last answer of the call, which returns a failure.
C24_ServerErrorBacksOffAndResubmits ==
    /\ \A i \in 1 .. Len(retrier.log) :
           (retrier.log[i].op = "submit" /\ retrier.log[i].res = "server_error")
               => IF retrier.log[i].attempt >= MAX_RETRIES
                      THEN /\ i = Len(retrier.log)
                           /\ retrier.pc = "returned"
                           /\ retrier.result = "failure"
                  ELSE IF i < Len(retrier.log)
                      THEN /\ retrier.log[i + 1].op = "submit"
                           /\ retrier.log[i + 1].cred = retrier.log[i].cred
                           /\ retrier.log[i + 1].attempt
                                  = retrier.log[i].attempt + 1
                      ELSE /\ retrier.pc \in {"backoff", "submit"}
                           /\ retrier.cred_index = retrier.log[i].cred
                           /\ retrier.attempt = retrier.log[i].attempt + 1
                           /\ retrier.delay = 2 ^ retrier.log[i].attempt
    /\ retrier.pc = "backoff"
           => /\ retrier.delay = 2 ^ (retrier.attempt - 1)
              /\ retrier.delay \in {2, 4}

\* The second server error in a row has been answered with the 4 s sleep.
C24_Witness ==
    /\ retrier.pc = "backoff"
    /\ retrier.delay = 4
    /\ Len(retrier.log) = 2
    /\ \A i \in 1 .. 2 : retrier.log[i].res = "server_error"

\* The submission errors that are neither retried nor answered by a switch
\* of credentials.
FatalSubmitError(e) ==
    /\ e.op = "submit"
    /\ \/ e.res \in {"forbidden", "client_error"}
       \/ e.res = "insufficient_credits" /\ e.cred + 1 >= retrier.ncreds

\* C25: a submission answered forbidden, client_error_<status>, or
\* insufficient credits under the last credential set is the last answer of
\* the call: the call has returned a failure, with the attempt number and
\* the credential index it had when it submitted.
C25_ClientErrorIsFatalAtOnce ==
    \A i \in 1 .. Len(retrier.log) :
        FatalSubmitError(retrier.log[i])
            => /\ i = Len(retrier.log)
               /\ retrier.pc = "returned"
               /\ retrier.result = "failure"
               /\ retrier.attempt = retrier.log[i].attempt
               /\ retrier.cred_index = retrier.log[i].cred

\* The call switched to the secondary set and failed there for credits, in
\* its first attempt.
C25_Witness ==
    /\ retrier.pc = "returned"
    /\ Len(retrier.log) = 2
    /\ LastEntry.res = "insufficient_credits"
    /\ LastEntry.cred = 1
    /\ retrier.attempt = 1

\* The retrier waits on _poll_status.
Polling == retrier.pc \in {"poll", "poll_sleep"}

\* _poll_status finds the ceiling passed when it wakes, and gives up.
TimesOut ==
    \E dt \in ClockSteps :
        /\ retrier.elapsed + dt > MaxWaitTicks
        /\ PollSleepDone(dt)

\* The retrier consumes one attempt and goes to a new submission under the
\* same credential set (at once, or after its backoff sleep); without an
\* attempt left the call returns a failure.
RetriedOrFatal ==
    IF retrier.attempt < MAX_RETRIES
        THEN /\ retrier'.attempt = retrier.attempt + 1
             /\ retrier'.cred_index = retrier.cred_index
             /\ retrier'.pc \in {"submit", "backoff"}
        ELSE /\ retrier'.pc = "returned"
             /\ retrier'.result = "failure"

\* C26 as stated: a poll timeout and a server-class (5xx) answer to the
\* status query each end the poll; the retrier then consumes one attempt and
\* resubmits under the same credential index, or fails when no attempt is
\* left.
C26_TimeoutOrServerErrorRetried ==
    [][(TimesOut \/ StatusAnswer("http_5xx")) => RetriedOrFatal]_retrier

\* C26 (amended): the poll ends with poll_timeout when the ceiling is passed
\* and with poll_error_<status> on a status that is neither 200 nor 5xx;
\* either makes the retrier consume one attempt and resubmit under the same
\* credential index (after the backoff sleep for poll_error), or fail when no
\* attempt is left.  A 5xx answer does not end the poll.
C26_TimeoutOrPollErrorRetried ==
    [][/\ (TimesOut \/ StatusAnswer("http_other")) => RetriedOrFatal
       /\ TimesOut /\ retrier.attempt < MAX_RETRIES => retrier'.pc = "submit"
       /\ BackoffDone
              => /\ retrier'.pc = "submit"
                 /\ retrier'.attempt = retrier.attempt
                 /\ retrier'.cred_index = retrier.cred_index
       /\ StatusAnswer("http_5xx") => Polling']_retrier

\* A poll error of the first attempt has led, after the backoff, to the
\* submission of the second attempt.
C26_Witness ==
    /\ retrier.pc = "submit"
    /\ Len(retrier.log) = 2
    /\ LastEntry.op = "poll"
    /\ LastEntry.res = "poll_error"
    /\ LastEntry.attempt = 1
    /\ retrier.attempt = 2
    /\ retrier.delay = 2

\* C27 as stated: a status query answered "failed", or "completed" without a
\* video URL, ends the call with a failure at once, whatever attempts are
\* left.
C27_ReportedFailureIsFatal ==
    [][\A ans \in {"failed", "failed_text_poll_timeout", "completed_no_url"} :
           StatusAnswer(ans)
               => /\ retrier'.pc = "returned"
                  /\ retrier'.result = "failure"]_retrier

\* C28: a 5xx answer, a network timeout or a client network error during
\* polling changes nothing but the poller's position: attempt, credential
\* index, status URL, log and wait interval stay, the poller sleeps, and when
\* it wakes below the ceiling it queries the same handle again.
C28_TransientAnswerKeepsPolling ==
    [][/\ \A ans \in TransientAnswers :
              StatusAnswer(ans)
                  => retrier' = [retrier EXCEPT !.pc = "poll_sleep"]
       /\ \A dt \in ClockSteps :
              (PollSleepDone(dt) /\ retrier.elapsed + dt <= MaxWaitTicks)
                  => /\ retrier'.pc = "poll"
                     /\ retrier'.status_url
                     /\ retrier'.attempt = retrier.attempt
                     /\ retrier'.cred_index = retrier.cred_index
                     /\ retrier'.log = retrier.log]_retrier

\* In its second attempt the poller sleeps after a transient answer: its
\* interval is still the initial one.
C28_Witness ==
    /\ retrier.pc = "poll_sleep"
    /\ retrier.attempt = 2
    /\ retrier.poll_interval = POLL_INTERVAL_START * IntervalScale

\* C29: while its queries are answered pending or transient, _poll_status
\* returns nothing as long as the elapsed time it reads is at most
\* max_wait_time; at the first reading above it, it returns poll_timeout; and
\* a poll that ends gives exactly one outcome to the retrier.
C29_TimeoutOnlyAboveCeiling ==
    [][/\ \A dt \in ClockSteps :
              PollSleepDone(dt)
                  => IF retrier.elapsed + dt <= MaxWaitTicks
                         THEN /\ retrier'.pc = "poll"
                              /\ retrier'.log = retrier.log
                         ELSE /\ ~Polling'
                              /\ Len(retrier'.log) = Len(retrier.log) + 1
                              /\ retrier'.log[Len(retrier'.log)].op = "poll"
                              /\ retrier'.log[Len(retrier'.log)].res
                                     = "poll_timeout"
       /\ \A ans \in TransientAnswers \cup {"pending"} :
              StatusAnswer(ans)
                  => retrier'.pc = "poll_sleep" /\ retrier'.log = retrier.log
       /\ (Polling /\ ~Polling')
              => /\ Len(retrier'.log) = Len(retrier.log) + 1
                 /\ retrier'.log[Len(retrier'.log)].op = "poll"
       /\ (Polling /\ Polling') => retrier'.log = retrier.log]_retrier

\* A query is under way although the elapsed time read stands exactly at the
\* ceiling.
C29_Witness ==
    /\ retrier.pc = "poll"
    /\ retrier.elapsed = MaxWaitTicks

\* The answers after which _poll_status queries again.
NonTerminalAnswers == TransientAnswers \cup {"pending"}

\* C30 as stated: the interval starts at 2 s, is multiplied by 1.2 (up to
\* the cap of 10 s) after every status query, never decreases and never
\* exceeds the cap.
C30_IntervalGrowsAfterEveryQuery ==
    [][\A ans \in NonTerminalAnswers :
           StatusAnswer(ans)
               => retrier'.poll_interval
                      = Min((retrier.poll_interval * FACTOR_NUM) \div FACTOR_DEN,
                            POLL_INTERVAL_CAP * IntervalScale)]_retrier

\* C30 (amended): the interval starts at 2 s with every call of
\* _poll_status; a query answered 200 with a status that does not end the
\* poll multiplies it by 1.2, up to the cap of 10 s, before the sleep; a
\* query that met a 5xx answer or a network error leaves it as it is; during
\* one poll it never decreases, and it is never above the cap nor below 2 s.
C30_IntervalGrowsAfterPendingOnly ==
    /\ [](/\ retrier.poll_interval >= POLL_INTERVAL_START * IntervalScale
          /\ retrier.poll_interval <= POLL_INTERVAL_CAP * IntervalScale
          /\ ~Polling
                 => retrier.poll_interval = POLL_INTERVAL_START * IntervalScale)
    /\ [][/\ StatusAnswer("pending")
                 => retrier'.poll_interval
                        = Min((retrier.poll_interval * FACTOR_NUM)
                                  \div FACTOR_DEN,
                              POLL_INTERVAL_CAP * IntervalScale)
          /\ \A ans \in TransientAnswers :
                 StatusAnswer(ans)
                     => retrier'.poll_interval = retrier.poll_interval
          /\ (Polling /\ Polling')
                 => retrier'.poll_interval >= retrier.poll_interval]_retrier

\* The interval has reached the cap.
C30_Witness ==
    /\ retrier.pc = "poll_sleep"
    /\ retrier.poll_interval = POLL_INTERVAL_CAP * IntervalScale

\* The call has just received `res` as the answer to a submission made in an
\* attempt below MAX_RETRIES.
SubmissionAnswered(res) ==
    /\ retrier.pc = "submit"
    /\ retrier.attempt < MAX_RETRIES
    /\ retrier'.log = Append(retrier.log, Entry(retrier, "submit", res))

\* The call goes on with the next attempt: one attempt is used up and the
\* loop submits again.
NextAttemptFollows ==
    /\ retrier'.pc \in {"backoff", "submit"}
    /\ retrier'.attempt = retrier.attempt + 1

\* C31: a submission that fails because an input image could not be
\* published ends its attempt only: in an attempt below MAX_RETRIES it uses
\* up one attempt and the call goes on with the next one.
C31_HostingFailureConsumesOneAttempt ==
    [][SubmissionAnswered("hosting_raised") => NextAttemptFollows]_retrier

\* C32: a network fault or timeout raised by the submission request in an
\* attempt below MAX_RETRIES is followed by another attempt; the call fails
\* on it only in attempt MAX_RETRIES.
C32_SubmitFaultRetriedUpToBudget ==
    [][SubmissionAnswered("network_raised")
           => /\ NextAttemptFollows
              /\ retrier'.result # "failure"]_retrier

\* The submissions of the call so far, the one in flight included.
NumSubmissions ==
    Len(SelectSeq(retrier.log, LAMBDA e : e.op = "submit"))
        + (IF retrier.pc = "submit" THEN 1 ELSE 0)

\* C36: whatever the submissions and polls answer, one generation call makes
\* at most MAX_RETRIES + (number of credential sets - 1) submissions, and,
\* every awaited call returning, it returns.
C36_BoundedSubmissionsThenReturns ==
    /\ [](NumSubmissions <= MAX_RETRIES + retrier.ncreds - 1)
    /\ <>(retrier.pc = "returned")

\* The bound is met: two credential sets, four submissions.
C36_Witness ==
    /\ retrier.pc = "returned"
    /\ retrier.ncreds = 2
    /\ NumSubmissions = MAX_RETRIES + retrier.ncreds - 1

\* The call is inside the while loop of _generate_higgsfield_video.
InLoop == retrier.pc \in {"submit", "poll", "poll_sleep", "download", "backoff"}

\* C40: inside the retry loop attempt is within 1 .. MAX_RETRIES and
\* cred_index within the credential list; along the call neither of them
\* decreases, so a switch of credentials keeps the attempt number; the call
\* never ends with the error raised after the loop.
C40_LoopCountersStayInRange ==
    /\ InLoop => /\ retrier.attempt \in 1 .. MAX_RETRIES
                 /\ retrier.cred_index \in 0 .. retrier.ncreds - 1
    /\ \A k \in 1 .. Len(retrier.log) :
           /\ retrier.log[k].cred <= retrier.cred_index
           /\ retrier.log[k].attempt <= retrier.attempt
           /\ \A i \in 1 .. k - 1 :
                  /\ retrier.log[i].cred <= retrier.log[k].cred
                  /\ retrier.log[i].attempt <= retrier.log[k].attempt
    /\ retrier.error # "Failed to generate video after retries"

\* The last attempt under the last credential set, reached after a switch.
C40_Witness ==
    /\ retrier.pc = "submit"
    /\ retrier.attempt = MAX_RETRIES
    /\ retrier.cred_index = 1
    /\ retrier.log[Len(retrier.log)].res = "insufficient_credits"

\* An upload of ip is answered with a job identifier; the later clock
\* readings of the handler fall on the day of the increment.
UploadAdmitted(ip, rolled2) ==
    /\ upload_images(ip, TRUE, TRUE, rolled2, FALSE)
    /\ response'.code = 200

\* C35: every upload answered with a job identifier raises the identity's
\* count by exactly one, and while the record keeps its day no later step
\* (the job failing, being cancelled or deleted) lowers the count.
C35_AdmittedUploadCountsAndStaysCounted ==
    [][\A ip \in Ips :
          /\ \A rolled2 \in BOOLEAN :
                 UploadAdmitted(ip, rolled2)
                     => rate_limit_store'[ip].count = CountToday(ip) + 1
          /\ (/\ response'.op # "upload"
              /\ ip \in DOMAIN rate_limit_store
              /\ rate_limit_store[ip].date = TODAY
              /\ rate_limit_store'[ip].date = TODAY)
                 => rate_limit_store'[ip].count >= rate_limit_store[ip].count
      ]_vars

\* The background task of a job is between its scheduling and its end.
WorkerRunning(j) == worker[j].pc \in {"scheduled"} \cup PipelinePcs

\* C37: however delete_job interleaves with the job's background task, the
\* task never brings back or writes a record that delete_job removed, and it
\* never ends in an exception that nothing handles.
C37_DeleteLeavesWorkerUnharmed ==
    /\ [](\A j \in JobIds : worker[j].pc # "crashed")
    /\ [][\A j \in JobIds :
             (~Exists(j) /\ WorkerRunning(j)) => ~Exists(j)']_vars

\* C38: right after an upload answered with a job identifier the identity's
\* record carries the current day and a count of at least 1, whether or not
\* midnight passed between the admission check and the increment.
C38_AdmittedUploadLeavesCountedRecord ==
    [][\A ip \in Ips, rolled2 \in BOOLEAN :
          UploadAdmitted(ip, rolled2)
              => /\ rate_limit_store'[ip].date = TODAY
                 /\ rate_limit_store'[ip].count >= 1
      ]_vars

\* C33: the list upscale_frames builds has one entry per frame handled, in
\* the order of its input: entry k is the enhanced frame k when that
\* enhancement succeeded and the original frame k when it failed; after a
\* failure the function goes on, no entry once made is changed by a later
\* frame, and the returned list is as long as the input.
C33_FailedFrameKeepsOriginal ==
    /\ [](/\ upscaler.pc \in {"entry", "await", "returned"}
          /\ Len(upscaler.upscaled_paths) = Len(upscaler.succeeded)
          /\ upscaler.pc = "await"
                 => Len(upscaler.upscaled_paths) = upscaler.i - 1
          /\ upscaler.pc = "returned"
                 => Len(upscaler.upscaled_paths) = Len(upscaler.frame_paths)
          /\ \A k \in 1 .. Len(upscaler.upscaled_paths) :
                 upscaler.upscaled_paths[k] =
                     IF upscaler.succeeded[k]
                         THEN UpscaledPath(k) ELSE upscaler.frame_paths[k])
    /\ [][\A k \in 1 .. Len(upscaler.upscaled_paths) :
              upscaler'.upscaled_paths[k] = upscaler.upscaled_paths[k]]_upscaler

\* The function has returned after the first and the last enhancement
\* failed and another one succeeded.
C33_Witness ==
    /\ upscaler.pc = "returned"
    /\ ~upscaler.succeeded[1]
    /\ upscaler.succeeded[2]
    /\ ~upscaler.succeeded[NUM_FRAMES]

\* The segment tasks that ended in success.
Succeeded == {i \in Tasks : sched.task[i] = "success"}

\* C34: stitch_videos is called at most once in a run, and not before the
\* segment stage is through; once the stage is through it has been called
\* exactly when some segment succeeded; its input is the files of the
\* successful segments, one each, in increasing task order, with nothing for
\* a failed segment.
C34_StitchesSuccessfulSegmentsInOrder ==
    /\ Len(sched.stitch_calls) <= 1
    /\ sched.pc \notin {"stitch", "finished"} => sched.stitch_calls = << >>
    /\ sched.pc \in {"stitch", "finished"}
           => (Len(sched.stitch_calls) = 1 <=> Succeeded # {})
    /\ \A c \in 1 .. Len(sched.stitch_calls) :
           LET input == sched.stitch_calls[c]
           IN  /\ Len(input) = Cardinality(Succeeded)
               /\ \A k \in 1 .. Len(input) :
                      \E i \in Succeeded : input[k] = SegmentPath(i)
               /\ \A k, m \in 1 .. Len(input) :
                      k < m => input[k].n < input[m].n

\* The stitcher has returned from a call whose input skipped a failed
\* segment between two successful ones.
C34_Witness ==
    /\ sched.pc = "finished"
    /\ Len(sched.stitch_calls) = 1
    /\ sched.task[0] = "success"
    /\ sched.task[1] = "failure"
    /\ sched.task[2] = "success"
    /\ sched.task[NUM_SEGMENTS - 1] = "exception"

\* C39: every admitted job is in the end completed, failed or cancelled,
\* unless it is deleted first, provided its background task is run and every
\* call the task awaits returns or raises.
C39_AdmittedJobReachesTerminalStatus ==
    \A j \in JobIds :
        (Exists(j) /\ Status(j) \notin Terminal)
            ~> (~Exists(j) \/ Status(j) \in Terminal)

\* A job that was taken through the whole pipeline has been completed by its
\* background task although the stitcher failed.
C39_Witness ==
    \E j \in Jobs :
        /\ Status(j) = COMPLETED
        /\ worker[j].pc = "done"
        /\ worker[j].nsucc = NUM_SEGMENTS
        /\ ~job_status[j].result[1].final_video

====
